---- MODULE Spec2Model ----
(***************************************************************************)
(* State-machine model of streamlit_app.py: the SPCFold front end.  One    *)
(* browser session runs the script top to bottom on every widget           *)
(* interaction; pressing "Predict Structure" runs the pipeline             *)
(*   validate_sequence -> predict_structure -> render_mol ->               *)
(*   load_structure -> download_button -> analyze_protein_sequence.        *)
(* Text is a sequence of one-character strings.  An optional value is      *)
(* None (the empty tuple) or Some(v) (the one-element tuple <<v>>).         *)
(***************************************************************************)
EXTENDS Integers, Sequences, FiniteSets, TLC

VARIABLES
  txt,                  \* content of the sidebar text area
  visualization_style,  \* value of the sidebar selectbox
  button,               \* value st.sidebar.button returned in the current/last run
  pc,                   \* position of the current script run in main()
  validated_seq,        \* local of main(): Optional text
  pdb_string,           \* local of main(): Optional string
  cache,                \* entries of @st.cache_data(ttl=3600) on predict_structure
  now,                  \* wall clock, in seconds
  predicted_pdb,        \* state of the file 'predicted.pdb' in the working directory
  BIOPYTHON_AVAILABLE,  \* module global set by the guarded import
  posts,                \* HTTP POSTs issued in the current/last run
  renders,              \* showmol calls of the current/last run
  downloads,            \* download_button payloads of the current/last run
  analyses,             \* analyze_protein_sequence calls of the current/last run
  msgs,                 \* st.error / st.warning / st.success / st.info shown, in order
  calls,                \* invocations of predict_structure in the current/last run
  ledger                \* for each sequence, the latest POST made for it

vars == << txt, visualization_style, button, pc, validated_seq, pdb_string, cache,
           now, predicted_pdb, BIOPYTHON_AVAILABLE, posts, renders, downloads,
           analyses, msgs, calls, ledger >>

-----------------------------------------------------------------------------
(* Bounds of the model *)

MaxTime == 3600

MaxHead == 2

(* Program constants *)

MIN_LEN == 10

MAX_LEN == 1000

TTL == 3600

-----------------------------------------------------------------------------
(* Optional values *)

None == << >>

Some(v) == << v >>

-----------------------------------------------------------------------------
(* Characters and text *)

Alphabet ==
  {"A","C","D","E","F","G","H","I","K","L","M","N","P","Q","R","S","T","V","W","Y"}

LowerCase ==
  <<"a","b","c","d","e","f","g","h","i","j","k","l","m",
    "n","o","p","q","r","s","t","u","v","w","x","y","z">>

UpperCase ==
  <<"A","B","C","D","E","F","G","H","I","J","K","L","M",
    "N","O","P","Q","R","S","T","U","V","W","X","Y","Z">>

\* str.upper() on one character: a lower-case letter maps to its capital,
\* every other character of the model is left alone.
UpperChar(c) ==
  IF \E i \in 1..26 : LowerCase[i] = c
    THEN UpperCase[CHOOSE i \in 1..26 : LowerCase[i] = c]
    ELSE c

upper(s) == [i \in 1..Len(s) |-> UpperChar(s[i])]

NotSpace(c) == c # " "

\* sequence.replace(' ', ''): only U+0020 is removed.
replace_space(s) == SelectSeq(s, NotSpace)

DEFAULT_SEQ ==
  <<
     "M", "G", "S", "S", "H", "H", "H", "H", "H", "H", "S", "S", "G", "L", "V",
     "P", "R", "G", "S", "H", "M", "R", "G", "P", "N", "P", "T", "A", "A", "S",
     "L", "E", "A", "S", "A", "G", "P", "F", "T", "V", "R", "S", "F", "T", "V",
     "S", "R", "P", "S", "G", "Y", "G", "A", "G", "T", "V", "Y", "Y", "P", "T",
     "N", "A", "G", "G", "T", "V", "G", "A", "I", "A", "I", "V", "P", "G", "Y",
     "T", "A", "R", "Q", "S", "S", "I", "K", "W", "W", "G", "P", "R", "L", "A",
     "S", "H", "G", "F", "V", "V", "I", "T", "I", "D", "T", "N", "S", "T", "L",
     "D", "Q", "P", "S", "S", "R", "S", "S", "Q", "Q", "M", "A", "A", "L", "R",
     "Q", "V", "A", "S", "L", "N", "G", "T", "S", "S", "S", "P", "I", "Y", "G",
     "K", "V", "D", "T", "A", "R", "M", "G", "V", "M", "G", "W", "S", "M", "G",
     "G", "G", "G", "S", "L", "I", "S", "A", "A", "N", "N", "P", "S", "L", "K",
     "A", "A", "A", "P", "Q", "A", "P", "W", "D", "S", "S", "T", "N", "F", "S",
     "S", "V", "T", "V", "P", "T", "L", "I", "F", "A", "C", "E", "N", "D", "S",
     "I", "A", "P", "V", "N", "S", "S", "A", "L", "P", "I", "Y", "D", "S", "M",
     "S", "R", "N", "A", "K", "Q", "F", "L", "E", "I", "N", "G", "G", "S", "H",
     "S", "C", "A", "N", "S", "G", "N", "S", "N", "Q", "A", "L", "I", "G", "K",
     "K", "G", "V", "A", "W", "M", "K", "R", "F", "M", "D", "N", "D", "T", "R",
     "Y", "S", "T", "F", "A", "C", "E", "N", "P", "N", "S", "T", "R", "V", "S",
     "D", "F", "R", "T", "A", "N", "C", "S", "L", "E", "D", "P", "A", "A", "N",
     "K", "A", "R", "K", "E", "A", "E", "L", "A", "A", "A", "T", "A", "E", "Q"
  >>

\* n copies of the residue "A"
Pad(n) == [i \in 1..n |-> "A"]

ATOM == <<"A","T","O","M">>

HETATM == <<"H","E","T","A","T","M">>

-----------------------------------------------------------------------------
(* validate_sequence *)

\* re.match(r'^[ACDEFGHIKLMNPQRSTVWY]+$', s): one or more alphabet characters
\* from the start, then '$', which in Python matches at the end of the string
\* and also just before a newline that is the last character of the string.
re_match(s) ==
  \E k \in {Len(s) - 1, Len(s)} :
     /\ k >= 1
     /\ \A i \in 1..k : s[i] \in Alphabet
     /\ \/ k = Len(s)
        \/ s[Len(s)] = "\n"

validate_sequence_off_by_one(sequence) ==
  LET cleaned_sequence == upper(replace_space(sequence))
  IN  IF ~ re_match(cleaned_sequence)
        THEN [value |-> None, error |-> Some("error_invalid")]
      ELSE IF Len(cleaned_sequence) <= MIN_LEN
        THEN [value |-> None, error |-> Some("error_short")]
      ELSE IF Len(cleaned_sequence) >= MAX_LEN
        THEN [value |-> None, error |-> Some("error_long")]
      ELSE [value |-> Some(cleaned_sequence), error |-> None]

\* Returns the function's result (None or the cleaned sequence) and the
\* st.error it shows, if any.
validate_sequence(sequence) ==
  LET cleaned_sequence == upper(replace_space(sequence))
  IN  IF ~ re_match(cleaned_sequence)
        THEN [value |-> None, error |-> Some("error_invalid")]
      ELSE IF Len(cleaned_sequence) < MIN_LEN
        THEN [value |-> None, error |-> Some("error_short")]
      ELSE IF Len(cleaned_sequence) > MAX_LEN
        THEN [value |-> None, error |-> Some("error_long")]
      ELSE [value |-> Some(cleaned_sequence), error |-> None]

\* Python truth value of an Optional text: None and the empty text are falsy.
Truthy(o) == o # None /\ Len(o[1]) > 0

-----------------------------------------------------------------------------
(* predict_structure *)

Exception(k) == [kind |-> k, status |-> 0, body |-> << >>, utf8 |-> TRUE]

Response(s, b, u) == [kind |-> "response", status |-> s, body |-> b, utf8 |-> u]

\* What requests.post(..., timeout=30) can produce: a Timeout, another
\* transport failure, or a final response with a status and a body (which may
\* or may not be valid UTF-8).
Responses ==
  { Exception("Timeout"), Exception("ConnectionError"),
    Response(200, ATOM, TRUE), Response(200, << >>, TRUE), Response(200, ATOM, FALSE),
    Response(300, ATOM, TRUE), Response(404, << >>, TRUE) }

\* response.raise_for_status() raises HTTPError for 4xx and 5xx statuses.
raise_for_status(r) == r.status >= 400 /\ r.status < 600

\* A requests.RequestException reaches the except clause.
RequestException(r) ==
  \/ r.kind \in {"Timeout", "ConnectionError"}
  \/ r.kind = "response" /\ raise_for_status(r)

\* Body of predict_structure given what the POST produced: the value returned,
\* whether st.error was shown, whether an exception left the function.
predict_structure(sequence, r) ==
  IF RequestException(r)
    THEN [ret |-> None, error |-> TRUE, raised |-> FALSE]
  ELSE IF ~ r.utf8
    THEN [ret |-> None, error |-> FALSE, raised |-> TRUE]
  ELSE [ret |-> Some(r.body), error |-> FALSE, raised |-> FALSE]

cache_lookup_inclusive(c, sequence, t) ==
  { e \in c : e.key = sequence /\ t <= e.stamp + TTL }

\* @st.cache_data(ttl=3600): the entries for this argument that are younger
\* than the time to live.
cache_lookup(c, sequence, t) ==
  { e \in c : e.key = sequence /\ t < e.stamp + TTL }

cache_write_success_only(c, sequence, value, t) ==
  IF value = None THEN c
  ELSE { e \in c : e.key # sequence }
         \cup { [key |-> sequence, value |-> value, stamp |-> t] }

\* The return value (None included) replaces the entry of this argument.
cache_write(c, sequence, value, t) ==
  { e \in c : e.key # sequence }
    \cup { [key |-> sequence, value |-> value, stamp |-> t] }

-----------------------------------------------------------------------------
(* render_mol *)

Styles == {"Cartoon (Spectrum)", "Stick", "Sphere", "Cross", "Ribbon"}

style_options ==
  [s \in Styles |->
     CASE s = "Cartoon (Spectrum)" -> <<"cartoon", "color=spectrum">>
       [] s = "Stick"              -> <<"stick", "">>
       [] s = "Sphere"             -> <<"sphere", "scale=0.5">>
       [] s = "Cross"              -> <<"cross", "scale=1">>
       [] s = "Ribbon"             -> <<"ribbon", "">>]

KeyError == <<"KeyError", "">>

style_get_no_default(style) ==
  IF style \in DOMAIN style_options THEN style_options[style] ELSE KeyError

\* style_options.get(style, {'cartoon': {'color': 'spectrum'}})
style_get(style) ==
  IF style \in DOMAIN style_options
    THEN style_options[style]
    ELSE <<"cartoon", "color=spectrum">>

\* The view handed to showmol: the model text, the style argument, the style set.
render_mol(pdb, style) ==
  [ model |-> pdb, arg |-> style, setStyle |-> style_get(style),
    background |-> "white", spin |-> TRUE ]

\* render_mol(pdb): the default argument style='cartoon'
render_mol_default(pdb) == render_mol(pdb, "cartoon")

-----------------------------------------------------------------------------
(* Inputs of the model *)

\* Texts a user types into the text area during a session.
SessionInputs ==
  { DEFAULT_SEQ, <<"k", " ">> \o Pad(9), Pad(9) }

\* Amounts by which the clock advances between two interactions.
TickSteps == {3599, 3600}

InputChars == {"A", "k", " ", "\n"}

Heads == UNION { [1..n -> InputChars] : n \in 0..MaxHead }

Tails == { << >>, <<"\n">>, <<"\t">> }

PadLens == {0, 9, 10, 1000, 1001}

\* Texts given to validate_sequence: a short arbitrary head, a run of
\* residues that reaches the length limits, a short tail.
ValidateInputs ==
  { h \o Pad(n) \o t : h \in Heads, n \in PadLens, t \in Tails }

StyleArgs == Styles \cup {"cartoon", "Surface", ""}

MaxRenders == 2

-----------------------------------------------------------------------------
(* The session *)

Screen(m) ==
  /\ msgs' = m
  /\ posts' = << >>
  /\ renders' = << >>
  /\ downloads' = << >>
  /\ analyses' = << >>
  /\ calls' = << >>

Environment ==
  /\ predicted_pdb \in {"missing", "present"}
  /\ BIOPYTHON_AVAILABLE \in BOOLEAN

\* The state after the first script run of a session: the widgets hold their
\* defaults, the button was not pressed, main() showed its warning.
Init ==
  /\ txt = DEFAULT_SEQ
  /\ visualization_style = "Cartoon (Spectrum)"
  /\ button = FALSE
  /\ pc = "idle"
  /\ validated_seq = None
  /\ pdb_string = None
  /\ cache = {}
  /\ now = 0
  /\ Environment
  /\ posts = << >>
  /\ renders = << >>
  /\ downloads = << >>
  /\ analyses = << >>
  /\ msgs = <<"warning_enter">>
  /\ calls = << >>
  /\ ledger = {}

\* A script run without the button: main() only shows the warning.
RerunWithoutButton ==
  /\ button' = FALSE
  /\ pc' = "idle"
  /\ validated_seq' = None
  /\ pdb_string' = None
  /\ Screen(<<"warning_enter">>)
  /\ UNCHANGED << cache, now, predicted_pdb, BIOPYTHON_AVAILABLE, ledger >>

EditText(t) ==
  /\ pc = "idle"
  /\ t # txt
  /\ txt' = t
  /\ RerunWithoutButton
  /\ UNCHANGED visualization_style

SelectStyle(s) ==
  /\ pc = "idle"
  /\ s # visualization_style
  /\ visualization_style' = s
  /\ RerunWithoutButton
  /\ UNCHANGED txt

\* Time passes between two interactions; a script run, its POST included, is
\* short against the time to live and takes no time on this clock.
Tick(d) ==
  /\ pc = "idle"
  /\ now + d <= MaxTime
  /\ now' = now + d
  /\ UNCHANGED << txt, visualization_style, button, pc, validated_seq, pdb_string,
                  cache, predicted_pdb, BIOPYTHON_AVAILABLE, posts, renders,
                  downloads, analyses, msgs, calls, ledger >>

\* st.sidebar.button('Predict Structure') returns True: a new script run starts.
PressButton ==
  /\ pc = "idle"
  /\ button' = TRUE
  /\ pc' = "validate"
  /\ validated_seq' = None
  /\ pdb_string' = None
  /\ Screen(<< >>)
  /\ UNCHANGED << txt, visualization_style, cache, now, predicted_pdb,
                  BIOPYTHON_AVAILABLE, ledger >>

\* validated_seq = validate_sequence(txt); if validated_seq: ...
ValidateStep ==
  /\ pc = "validate"
  /\ LET r == validate_sequence(txt)
     IN  /\ validated_seq' = r.value
         /\ msgs' = IF r.error = None THEN msgs ELSE Append(msgs, r.error[1])
         /\ pc' = IF Truthy(r.value) THEN "predict" ELSE "idle"
  /\ UNCHANGED << txt, visualization_style, button, pdb_string, cache, now,
                  predicted_pdb, BIOPYTHON_AVAILABLE, posts, renders, downloads,
                  analyses, calls, ledger >>

\* Ledger entry: a POST made for a sequence, when, and how the call ended.
Post(sequence, ret, raised) ==
  [seq |-> sequence, at |-> now, ret |-> ret, raised |-> raised]

\* Record of one invocation: its argument, the time, whether it issued a POST,
\* what it returned, and the ledger as it stood when the call was made.
Call(sequence, posted, ret, raised) ==
  [seq |-> sequence, at |-> now, posted |-> posted, ret |-> ret, raised |-> raised,
   before |-> ledger]

\* pdb_string = predict_structure(validated_seq), served from the cache; the
\* st.error recorded with a cached None may be replayed, depending on the
\* Streamlit version.  Then: if pdb_string: ...
PredictHit ==
  /\ pc = "predict"
  /\ cache_lookup(cache, validated_seq[1], now) # {}
  /\ LET e == CHOOSE e \in cache_lookup(cache, validated_seq[1], now) : TRUE
     IN  /\ pdb_string' = e.value
         /\ \E replay \in BOOLEAN :
              msgs' = IF e.value = None /\ replay
                        THEN Append(msgs, "error_api") ELSE msgs
         /\ calls' = Append(calls, Call(validated_seq[1], FALSE, e.value, FALSE))
         /\ pc' = IF Truthy(e.value) THEN "render" ELSE "idle"
  /\ UNCHANGED << txt, visualization_style, button, validated_seq, cache, now,
                  predicted_pdb, BIOPYTHON_AVAILABLE, posts, renders, downloads,
                  analyses, ledger >>

PredictMiss_retries(r) ==
  /\ pc = "predict"
  /\ cache_lookup(cache, validated_seq[1], now) = {}
  /\ LET p == [body |-> validated_seq[1], resp |-> r]
     IN  posts' = IF RequestException(r) THEN Append(Append(posts, p), p)
                                         ELSE Append(posts, p)
  /\ LET o == predict_structure(validated_seq[1], r)
     IN  /\ calls' = Append(calls, Call(validated_seq[1], TRUE, o.ret, o.raised))
         /\ ledger' = { l \in ledger : l.seq # validated_seq[1] }
                         \cup { Post(validated_seq[1], o.ret, o.raised) }
         /\ IF o.raised
              THEN /\ msgs' = Append(msgs, "exception_decode")
                   /\ pc' = "idle"
                   /\ UNCHANGED << pdb_string, cache >>
              ELSE /\ msgs' = IF o.error THEN Append(msgs, "error_api") ELSE msgs
                   /\ pdb_string' = o.ret
                   /\ cache' = cache_write(cache, validated_seq[1], o.ret, now)
                   /\ pc' = IF Truthy(o.ret) THEN "render" ELSE "idle"
  /\ UNCHANGED << txt, visualization_style, button, validated_seq, now,
                  predicted_pdb, BIOPYTHON_AVAILABLE, renders, downloads,
                  analyses >>

\* pdb_string = predict_structure(validated_seq), not in the cache: the body
\* runs, one POST is issued and answered by r.  An exception that leaves the
\* function ends the script run and nothing is cached.
PredictMiss(r) ==
  /\ pc = "predict"
  /\ cache_lookup(cache, validated_seq[1], now) = {}
  /\ posts' = Append(posts, [body |-> validated_seq[1], resp |-> r])
  /\ LET o == predict_structure(validated_seq[1], r)
     IN  /\ calls' = Append(calls, Call(validated_seq[1], TRUE, o.ret, o.raised))
         /\ ledger' = { l \in ledger : l.seq # validated_seq[1] }
                         \cup { Post(validated_seq[1], o.ret, o.raised) }
         /\ IF o.raised
              THEN /\ msgs' = Append(msgs, "exception_decode")
                   /\ pc' = "idle"
                   /\ UNCHANGED << pdb_string, cache >>
              ELSE /\ msgs' = IF o.error THEN Append(msgs, "error_api") ELSE msgs
                   /\ pdb_string' = o.ret
                   /\ cache' = cache_write(cache, validated_seq[1], o.ret, now)
                   /\ pc' = IF Truthy(o.ret) THEN "render" ELSE "idle"
  /\ UNCHANGED << txt, visualization_style, button, validated_seq, now,
                  predicted_pdb, BIOPYTHON_AVAILABLE, renders, downloads,
                  analyses >>

\* st.success(...); render_mol(pdb_string, visualization_style)
RenderStep ==
  /\ pc = "render"
  /\ msgs' = Append(msgs, "success")
  /\ renders' = Append(renders, render_mol(pdb_string[1], visualization_style))
  /\ pc' = "confidence"
  /\ UNCHANGED << txt, visualization_style, button, validated_seq, pdb_string,
                  cache, now, predicted_pdb, BIOPYTHON_AVAILABLE, posts, downloads,
                  analyses, calls, ledger >>

\* bsio.load_structure('predicted.pdb', ...) on a file the program never
\* writes: with no such file the exception leaves main() and ends the run.
ConfidenceFails ==
  /\ pc = "confidence"
  /\ predicted_pdb = "missing"
  /\ msgs' = Append(msgs, "exception_load_structure")
  /\ pc' = "idle"
  /\ UNCHANGED << txt, visualization_style, button, validated_seq, pdb_string,
                  cache, now, predicted_pdb, BIOPYTHON_AVAILABLE, posts, renders,
                  downloads, analyses, calls, ledger >>

\* The file exists: the mean b_factor of that file is shown.
ConfidenceShown ==
  /\ pc = "confidence"
  /\ predicted_pdb = "present"
  /\ msgs' = Append(msgs, "plddt_from_file")
  /\ pc' = "download"
  /\ UNCHANGED << txt, visualization_style, button, validated_seq, pdb_string,
                  cache, now, predicted_pdb, BIOPYTHON_AVAILABLE, posts, renders,
                  downloads, analyses, calls, ledger >>

\* st.download_button(data=pdb_string, ...)
DownloadStep ==
  /\ pc = "download"
  /\ downloads' = Append(downloads, pdb_string[1])
  /\ pc' = "analyze"
  /\ UNCHANGED << txt, visualization_style, button, validated_seq, pdb_string,
                  cache, now, predicted_pdb, BIOPYTHON_AVAILABLE, posts, renders,
                  analyses, msgs, calls, ledger >>

\* analyze_protein_sequence(validated_seq); m is what it shows: the metrics,
\* the warning of its except clause, or the hint to install Biopython.
Analyze(m) ==
  /\ pc = "analyze"
  /\ analyses' = Append(analyses, validated_seq[1])
  /\ msgs' = Append(msgs, m)
  /\ pc' = "idle"
  /\ UNCHANGED << txt, visualization_style, button, validated_seq, pdb_string,
                  cache, now, predicted_pdb, BIOPYTHON_AVAILABLE, posts, renders,
                  downloads, calls, ledger >>

AnalyzeMetrics == BIOPYTHON_AVAILABLE /\ Analyze("metrics")

AnalyzeWarning == BIOPYTHON_AVAILABLE /\ Analyze("warning_analysis")

AnalyzeUnavailable == ~ BIOPYTHON_AVAILABLE /\ Analyze("info_biopython")

Pipeline ==
  \/ ValidateStep
  \/ \E r \in Responses : PredictMiss(r)
  \/ RenderStep
  \/ ConfidenceFails
  \/ ConfidenceShown
  \/ DownloadStep
  \/ AnalyzeMetrics
  \/ AnalyzeWarning
  \/ AnalyzeUnavailable

Next ==
  \/ \E t \in SessionInputs : EditText(t)
  \/ \E s \in Styles : SelectStyle(s)
  \/ \E d \in TickSteps : Tick(d)
  \/ PressButton
  \/ PredictHit
  \/ Pipeline

Spec == Init /\ [][Next]_vars

\* validate_sequence on the texts of ValidateInputs, one button press each.
InitValidate ==
  /\ txt \in ValidateInputs
  /\ visualization_style = "Cartoon (Spectrum)"
  /\ button = FALSE
  /\ pc = "idle"
  /\ validated_seq = None
  /\ pdb_string = None
  /\ cache = {}
  /\ now = 0
  /\ Environment
  /\ posts = << >>
  /\ renders = << >>
  /\ downloads = << >>
  /\ analyses = << >>
  /\ msgs = <<"warning_enter">>
  /\ calls = << >>
  /\ ledger = {}

NextValidate == PressButton \/ PredictHit \/ Pipeline

SpecValidate == InitValidate /\ [][NextValidate]_vars

\* render_mol called directly, with any style argument or none.
RenderCall(v) ==
  /\ pc = "idle"
  /\ Len(renders) < MaxRenders
  /\ renders' = Append(renders, v)
  /\ UNCHANGED << txt, visualization_style, button, pc, validated_seq, pdb_string,
                  cache, now, predicted_pdb, BIOPYTHON_AVAILABLE, posts, downloads,
                  analyses, msgs, calls, ledger >>

RenderWithStyle == \E p \in {ATOM, HETATM}, s \in StyleArgs : RenderCall(render_mol(p, s))

RenderWithDefault == \E p \in {ATOM, HETATM} : RenderCall(render_mol_default(p))

NextRender == RenderWithStyle \/ RenderWithDefault

SpecRender == Init /\ [][NextRender]_vars

-----------------------------------------------------------------------------
(* Vocabulary of the properties *)

Range(s) == { s[i] : i \in 1..Len(s) }

OnlyAlphabet(s) == \A i \in 1..Len(s) : s[i] \in Alphabet

\* An alphabet letter in either case
IsAlphabetLetter(c) == UpperChar(c) \in Alphabet

Whitespace == {" ", "\t", "\n"}

\* The letters of a text, in order, as capitals
UpperLetters(s) == upper(SelectSeq(s, IsAlphabetLetter))

\* validate_sequence(txt) has run in the current/last script run
Validated == button /\ pc # "validate"

\* The script run started by the button has ended
RunDone == button /\ pc = "idle"

\* The prediction call failed: timeout, transport failure or non-2xx response
CallFailed(r) ==
  \/ r.kind # "response"
  \/ r.status < 200
  \/ r.status > 299

CallSucceeded(r) == r.kind = "response" /\ r.status >= 200 /\ r.status <= 299 /\ r.utf8

NothingRendered ==
  /\ renders = << >>
  /\ downloads = << >>
  /\ analyses = << >>
  /\ Range(msgs) \cap {"success", "plddt_from_file", "metrics"} = {}

-----------------------------------------------------------------------------
\* C1: an input that, once spaces are removed and letters capitalised, holds a
\* character outside the 20-letter alphabet (a tab, a trailing newline, no
\* character at all) is rejected with an error message and no POST is
\* issued; every body ever POSTed consists of alphabet letters only.
C1_InvalidInputNeverPosted ==
  /\ Validated /\ ( ~ OnlyAlphabet(upper(replace_space(txt))) \/ replace_space(txt) = << >> )
       => /\ validated_seq = None
          /\ Range(msgs) \cap {"error_invalid", "error_short", "error_long"} # {}
          /\ posts = << >>
  /\ \A i \in 1..Len(posts) : OnlyAlphabet(posts[i].body)

\* C2: an input of alphabet letters (either case) and whitespace with 10..1000
\* letters is accepted, the result is exactly its letters, capitalised, in
\* order, and validating the result again returns it unchanged.
C2_ReturnsLettersUppercased ==
  ( /\ Validated
    /\ \A i \in 1..Len(txt) : IsAlphabetLetter(txt[i]) \/ txt[i] \in Whitespace
    /\ Len(UpperLetters(txt)) >= 10
    /\ Len(UpperLetters(txt)) <= 1000 )
  => /\ validated_seq = Some(UpperLetters(txt))
     /\ validate_sequence(validated_seq[1]).value = validated_seq

\* C3: for a text of alphabet letters and spaces, the number of letters decides:
\* 1..9 is rejected as too short, 1001 or more as too long, 10..1000 (both
\* ends included) is accepted; spaces do not count.
C3_LengthBounds ==
  ( /\ Validated
    /\ \A i \in 1..Len(txt) : IsAlphabetLetter(txt[i]) \/ txt[i] = " " )
  => LET n == Len(SelectSeq(txt, IsAlphabetLetter))
     IN  /\ (n >= 1 /\ n <= 9) => validated_seq = None /\ msgs = <<"error_short">>
         /\ n >= 1001 => validated_seq = None /\ msgs = <<"error_long">>
         /\ (n >= 10 /\ n <= 1000) =>
               /\ validated_seq # None
               /\ Len(validated_seq[1]) = n
               /\ Range(msgs) \cap {"error_invalid", "error_short", "error_long"} = {}

\* A text of 1000 letters and one space was accepted, and a text of 9 letters
\* and one space would not be: here the accepted one.
C3_Witness ==
  /\ Validated
  /\ Len(txt) = 1001
  /\ txt[1] = " "
  /\ \A i \in 2..1001 : IsAlphabetLetter(txt[i])
  /\ validated_seq # None
  /\ Len(validated_seq[1]) = 1000

\* C4: when the prediction call fails (timeout, transport failure, non-2xx
\* response) the run shows the prediction error and nothing is rendered,
\* offered for download or analysed, and no success message is shown.
C4_FailedCallHalts ==
  \A i \in 1..Len(posts) :
     CallFailed(posts[i].resp) => "error_api" \in Range(msgs) /\ NothingRendered

\* C5: a run in which the POST got a 2xx response has, when it ends, rendered
\* that text exactly once, offered exactly that text for download and called
\* the analyzer exactly once.
C5_SuccessRendersOnce ==
  RunDone =>
    \A i \in 1..Len(posts) :
       CallSucceeded(posts[i].resp) =>
          /\ Len(renders) = 1
          /\ renders[1].model = posts[i].resp.body
          /\ downloads = << posts[i].resp.body >>
          /\ Len(analyses) = 1

\* The analyzer stage failed in this run: the metric computation (warning of
\* the except clause) or the confidence extraction from the structure file.
AnalyzerFailed ==
  Range(msgs) \cap {"warning_analysis", "exception_load_structure"} # {}

\* C6: a failure of the analyzer stage is a warning only: the run that had it
\* rendered the structure and offered the structure text for download.
C6_AnalyzerFailureNonBlocking ==
  (RunDone /\ AnalyzerFailed) =>
     /\ "warning_analysis" \in Range(msgs)
     /\ Len(renders) = 1
     /\ downloads = << pdb_string[1] >>

C8_StyleMappingTotal ==
  \A i \in 1..Len(renders) :
     LET v == renders[i]
     IN  /\ v.setStyle # KeyError
         /\ v.setStyle =
              CASE v.arg = "Cartoon (Spectrum)" -> <<"cartoon", "color=spectrum">>
                [] v.arg = "Stick"  -> <<"stick", "">>
                [] v.arg = "Sphere" -> <<"sphere", "scale=0.5">>
                [] v.arg = "Cross"  -> <<"cross", "scale=1">>
                [] v.arg = "Ribbon" -> <<"ribbon", "">>
                [] OTHER            -> <<"cartoon", "color=spectrum">>

\* render_mol was called once without a style and once with 'Sphere'.
C8_Witness ==
  /\ \E i \in 1..Len(renders) :
        renders[i].arg = "cartoon" /\ renders[i].setStyle = <<"cartoon", "color=spectrum">>
  /\ \E i \in 1..Len(renders) :
        renders[i].arg = "Sphere" /\ renders[i].setStyle = <<"sphere", "scale=0.5">>

\* C9: a script run issues at most one POST, and only in a run started by the
\* button whose validation succeeded, with the validated sequence as body.
C9_AtMostOnePostPerAction ==
  /\ Len(posts) <= 1
  /\ posts # << >> =>
        /\ button
        /\ Truthy(validated_seq)
        /\ posts[1].body = validated_seq[1]

\* A run whose single POST timed out has ended.
C9_Witness ==
  /\ RunDone
  /\ Len(posts) = 1
  /\ posts[1].resp.kind = "Timeout"

\* C10: a call made less than 3600 seconds after a failed POST (one that made
\* predict_structure return None) for the same sequence issues no POST,
\* returns None again, and the run ends without rendering.
C10_FailureIsMemoized ==
  \A i \in 1..Len(calls) :
     LET c == calls[i]
     IN  \A l \in c.before :
            ( /\ l.seq = c.seq
              /\ ~ l.raised
              /\ l.ret = None
              /\ c.at - l.at < 3600 )
            => /\ ~ c.posted
               /\ c.ret = None
               /\ posts = << >>
               /\ pc = "idle"
               /\ NothingRendered

\* A later run for a sequence whose POST had failed: served None, no POST.
C10_Witness ==
  /\ RunDone
  /\ posts = << >>
  /\ \E i \in 1..Len(calls) :
        /\ ~ calls[i].posted
        /\ calls[i].ret = None
        /\ calls[i].at > 0

====
